---- MODULE Spec2Model ----
(***************************************************************************)
(* A model of models/transformer/base.py: the positional encoding, the     *)
(* head split/merge of MultiheadAttention, the masked softmax of           *)
(* ScaleDotProductAttention, the encoder/decoder forward passes and the    *)
(* ownership of parameter tensors.                                         *)
(*                                                                         *)
(* Five specifications share the module, one per part of the program:      *)
(*   SpecPE     PositionalEncoding.__init__ / forward                      *)
(*   SpecHeads  the view/transpose/reshape chain of MultiheadAttention     *)
(*   SpecAttn   encoder and decoder self-attention (mask + softmax)        *)
(*   SpecFwd    Transformer.forward, shapes and the cross-attention mask   *)
(*   SpecCtor   construction, parameter registration and forward calls     *)
(* Indices are 0-based as in the source; TLA+ sequences are 1-based, so a  *)
(* position p of the source is element p + 1 of a sequence.                *)
(***************************************************************************)
EXTENDS Integers, Sequences, FiniteSets, TLC

VARIABLES
    pe_state, pe_max_len, pe_in, pe_out,
    hs_phase, hs_dims, hs_x, hs_t,
    at_phase, at_kind, at_tokens, at_mask, at_scores, at_attn,
    fw_pc, fw_args, fw_enc, fw_dec, fw_layer, fw_enc_out, fw_dec_out,
    fw_cross, fw_result,
    ct_status, ct_args, ct_created, ct_ctor_params, ct_registered, ct_used,
    ct_calls, ct_norms

peVars == <<pe_state, pe_max_len, pe_in, pe_out>>
hsVars == <<hs_phase, hs_dims, hs_x, hs_t>>
atVars == <<at_phase, at_kind, at_tokens, at_mask, at_scores, at_attn>>
fwVars == <<fw_pc, fw_args, fw_enc, fw_dec, fw_layer, fw_enc_out, fw_dec_out,
            fw_cross, fw_result>>
ctVars == <<ct_status, ct_args, ct_created, ct_ctor_params, ct_registered,
            ct_used, ct_calls, ct_norms>>
vars == <<peVars, hsVars, atVars, fwVars, ctVars>>

(***************************************************************************)
(* Bounds of the model.                                                    *)
(***************************************************************************)
PEMaxLen == 4
PEMaxBatch == 5
PEMaxSeq == 5
HSMaxBatch == 2
HSMaxSeq == 3
HSMaxHeads == 3
HSMaxDk == 2
ATMaxSeq == 3
ATScoreMax == 1
FWMaxSeq == 2
FWMaxBatch == 2
FWMaxLayers == 2
FWMaxHeads == 2
CTMaxDModel == 4
CTMaxHeads == 3
CTMaxLayers == 2
CTMaxCalls == 3

(***************************************************************************)
(* Before anything is constructed or called, every part is idle.           *)
(***************************************************************************)
PEIdle ==
    /\ pe_state = "none"
    /\ pe_max_len = 0
    /\ pe_in = <<>>
    /\ pe_out = [status |-> "none"]

HSIdle ==
    /\ hs_phase = "none"
    /\ hs_dims = <<>>
    /\ hs_x = <<>>
    /\ hs_t = <<>>

ATIdle ==
    /\ at_phase = "none"
    /\ at_kind = "none"
    /\ at_tokens = <<>>
    /\ at_mask = <<>>
    /\ at_scores = <<>>
    /\ at_attn = <<>>

FWIdle ==
    /\ fw_pc = "none"
    /\ fw_args = <<>>
    /\ fw_enc = <<>>
    /\ fw_dec = <<>>
    /\ fw_layer = 0
    /\ fw_enc_out = <<>>
    /\ fw_dec_out = <<>>
    /\ fw_cross = <<>>
    /\ fw_result = [status |-> "none"]

CTIdle ==
    /\ ct_status = "none"
    /\ ct_args = <<>>
    /\ ct_created = {}
    /\ ct_ctor_params = {}
    /\ ct_registered = {}
    /\ ct_used = {}
    /\ ct_calls = 0
    /\ ct_norms = <<>>

Init ==
    /\ PEIdle
    /\ HSIdle
    /\ ATIdle
    /\ FWIdle
    /\ CTIdle

(***************************************************************************)
(* Tensor shapes and broadcasting, as the tensor engine applies them.      *)
(***************************************************************************)
Min(a, b) == IF a <= b THEN a ELSE b

\* An operand dimension of size src broadcasts to a target dimension of size
\* dst iff the sizes agree or the operand's size is 1.  An in-place operation
\* (+=, masked_fill_) cannot grow its target, so only the operand broadcasts.
BroadcastOk(src, dst) == src = dst \/ src = 1

\* The operand element read for target index idx along one dimension.
BroadcastIdx(src, idx) == IF src = 1 THEN 0 ELSE idx

(***************************************************************************)
(* PositionalEncoding                                                      *)
(***************************************************************************)
DefaultMaxLen == 5000

\* __init__: pe is built [max_len, d_model], then unsqueeze(0).transpose(0, 1)
\* makes the registered buffer [max_len, 1, d_model]: row r of the table is
\* pe[r, 0, :].  The shape without its last axis (d_model, which always agrees
\* with the input's last axis):
PEBufferShape(max_len) == <<max_len, 1>>

\* self.pe[:x.size(0), :] slices the buffer's FIRST axis by the input's first
\* axis (the batch size); a slice past the end is clipped.
PESliceShape(max_len, batch) ==
    <<Min(batch, PEBufferShape(max_len)[1]), PEBufferShape(max_len)[2]>>

\* x += slice: x is [batch, seq_len, d_model], the slice [rows, 1, d_model].
PEForwardOk(max_len, batch, seq_len) ==
    /\ BroadcastOk(PESliceShape(max_len, batch)[1], batch)
    /\ BroadcastOk(PESliceShape(max_len, batch)[2], seq_len)

\* The table row added to x[b, p].
PEAddedRow(max_len, batch, b, p) ==
    BroadcastIdx(PESliceShape(max_len, batch)[1], b)

PositionalEncodingForward(max_len, batch, seq_len) ==
    IF PEForwardOk(max_len, batch, seq_len)
    THEN [status |-> "ok",
          added  |-> [b \in 0..(batch - 1) |->
                        [p \in 0..(seq_len - 1) |->
                            PEAddedRow(max_len, batch, b, p)]]]
    ELSE [status |-> "error"]

PEConstruct ==
    /\ pe_state = "none"
    /\ \E max_len \in 1..PEMaxLen :
          pe_max_len' = max_len
    /\ pe_state' = "built"
    /\ UNCHANGED <<pe_in, pe_out>>
    /\ UNCHANGED <<hsVars, atVars, fwVars, ctVars>>

PEForward ==
    /\ pe_state \in {"built", "called"}
    /\ \E batch \in 1..PEMaxBatch, seq_len \in 1..PEMaxSeq :
          /\ pe_in' = [batch |-> batch, seq_len |-> seq_len]
          /\ pe_out' = PositionalEncodingForward(pe_max_len, batch, seq_len)
    /\ pe_state' = "called"
    /\ UNCHANGED pe_max_len
    /\ UNCHANGED <<hsVars, atVars, fwVars, ctVars>>

PENext == PEConstruct \/ PEForward

SpecPE == Init /\ [][PENext]_vars

\* C4: a forward call that returns has added pe[p] to x[b, p] for every batch
\* index b and every position p < seq_len.
C4_AddsRowOfPosition ==
    (pe_state = "called" /\ pe_out.status = "ok") =>
        \A b \in 0..(pe_in.batch - 1) : \A p \in 0..(pe_in.seq_len - 1) :
            pe_out.added[b][p] = p

\* C5: a forward call with seq_len > max_len ends in an error, and a call with
\* seq_len <= max_len is accepted whatever the batch size.
C5_SeqLenBoundSurfaced ==
    pe_state = "called" =>
        /\ (pe_in.seq_len > pe_max_len => pe_out.status = "error")
        /\ (pe_in.seq_len <= pe_max_len => pe_out.status = "ok")

(***************************************************************************)
(* Strided tensors: view, transpose and reshape as the tensor engine does  *)
(* them.  A tensor is a storage (data), a shape and a stride per axis;     *)
(* element idx (0-based, one index per axis) is data[1 + SUM idx*stride].  *)
(***************************************************************************)
RECURSIVE Prod(_)
Prod(shape) ==
    IF shape = <<>> THEN 1 ELSE Head(shape) * Prod(Tail(shape))

\* The strides of a contiguous (row-major) tensor of this shape.
RECURSIVE ContiguousStrides(_)
ContiguousStrides(shape) ==
    IF shape = <<>> THEN <<>>
    ELSE <<Prod(Tail(shape))>> \o ContiguousStrides(Tail(shape))

RECURSIVE Offset(_, _)
Offset(idx, stride) ==
    IF idx = <<>> THEN 0
    ELSE Head(idx) * Head(stride) + Offset(Tail(idx), Tail(stride))

At(t, idx) == t.data[1 + Offset(idx, t.stride)]

\* The index of the n-th element (0-based) in row-major order.
RECURSIVE Unravel(_, _)
Unravel(n, shape) ==
    IF shape = <<>> THEN <<>>
    ELSE <<n \div Prod(Tail(shape))>> \o Unravel(n % Prod(Tail(shape)), Tail(shape))

IsContiguous(t) == t.stride = ContiguousStrides(t.shape)

\* A requested shape with one axis given as -1: that axis is inferred from the
\* number of elements.
InferShape(numel, shape) ==
    [k \in 1..Len(shape) |->
        IF shape[k] = -1
        THEN numel \div Prod([j \in 1..Len(shape) |->
                                 IF shape[j] = -1 THEN 1 ELSE shape[j]])
        ELSE shape[k]]

\* Tensor.view on a contiguous tensor: the same storage, read with the
\* strides of the new shape.
View(t, shape) ==
    [data   |-> t.data,
     shape  |-> InferShape(Len(t.data), shape),
     stride |-> ContiguousStrides(InferShape(Len(t.data), shape))]

\* Tensor.transpose(d0, d1) (0-based axes): the same storage with the two
\* axes' sizes and strides exchanged.
Swap(s, d0, d1) ==
    [k \in 1..Len(s) |->
        IF k = d0 + 1 THEN s[d1 + 1] ELSE IF k = d1 + 1 THEN s[d0 + 1] ELSE s[k]]

Transpose(t, d0, d1) ==
    [data   |-> t.data,
     shape  |-> Swap(t.shape, d0, d1),
     stride |-> Swap(t.stride, d0, d1)]

\* A fresh contiguous tensor holding t's elements in t's logical order (what
\* an operation that produces a new tensor, or a copying reshape, lays out).
Contiguous(t) ==
    [data   |-> [n \in 1..Prod(t.shape) |-> At(t, Unravel(n - 1, t.shape))],
     shape  |-> t.shape,
     stride |-> ContiguousStrides(t.shape)]

\* Tensor.reshape: a view when the tensor is contiguous, a copy otherwise.
Reshape(t, shape) ==
    IF IsContiguous(t) THEN View(t, shape) ELSE View(Contiguous(t), shape)

(***************************************************************************)
(* MultiheadAttention.forward: splitting into heads and merging back       *)
(***************************************************************************)
\* .view(b_s, -1, num_heads, d_k).transpose(1, 2)
SplitHeads(x, b_s, num_heads, d_k) ==
    Transpose(View(x, <<b_s, -1, num_heads, d_k>>), 1, 2)

\* A merge that forgets the transpose: it reads the heads-major context as if
\* it were position-major.
MergeHeadsNoTranspose(context, b_s, embed_dim) ==
    Reshape(context, <<b_s, -1, embed_dim>>)

\* context.transpose(1, 2).reshape(b_s, -1, embed_dim)
MergeHeads(context, b_s, embed_dim) ==
    Reshape(Transpose(context, 1, 2), <<b_s, -1, embed_dim>>)

\* The output of a projection: a contiguous [batch, seq, d_model] tensor.  Its
\* elements are numbered so that each can be told from every other.
Projected(batch, seq, d_model) ==
    [data   |-> [n \in 1..(batch * seq * d_model) |-> n],
     shape  |-> <<batch, seq, d_model>>,
     stride |-> ContiguousStrides(<<batch, seq, d_model>>)]

\* forward is entered with a query of some shape [b_s, seq, embed_dim] on a
\* module with num_heads heads, embed_dim = num_heads * d_k.
HSProject ==
    /\ hs_phase = "none"
    /\ \E b \in 1..HSMaxBatch, s \in 1..HSMaxSeq, h \in 1..HSMaxHeads, dk \in 1..HSMaxDk :
          /\ hs_dims' = [b_s |-> b, seq |-> s, num_heads |-> h, d_k |-> dk]
          /\ hs_x' = Projected(b, s, h * dk)
          /\ hs_t' = Projected(b, s, h * dk)
    /\ hs_phase' = "projected"
    /\ UNCHANGED <<peVars, atVars, fwVars, ctVars>>

\* Lines 97-99.
HSSplit ==
    /\ hs_phase = "projected"
    /\ hs_t' = SplitHeads(hs_t, hs_dims.b_s, hs_dims.num_heads, hs_dims.d_k)
    /\ hs_phase' = "split"
    /\ UNCHANGED <<hs_dims, hs_x>>
    /\ UNCHANGED <<peVars, atVars, fwVars, ctVars>>

\* Line 104: the attention returns a new [b_s, num_heads, seq, d_k] tensor;
\* here it carries the split tensor's elements, so positions can be followed.
HSAttend ==
    /\ hs_phase = "split"
    /\ hs_t' = Contiguous(hs_t)
    /\ hs_phase' = "context"
    /\ UNCHANGED <<hs_dims, hs_x>>
    /\ UNCHANGED <<peVars, atVars, fwVars, ctVars>>

\* Line 106.
HSMerge ==
    /\ hs_phase = "context"
    /\ hs_t' = MergeHeads(hs_t, hs_dims.b_s, hs_dims.num_heads * hs_dims.d_k)
    /\ hs_phase' = "merged"
    /\ UNCHANGED <<hs_dims, hs_x>>
    /\ UNCHANGED <<peVars, atVars, fwVars, ctVars>>

HSNext == HSProject \/ HSSplit \/ HSAttend \/ HSMerge

SpecHeads == Init /\ [][HSNext]_vars

HSIndices ==
    { <<b, s, h, c>> : b \in 0..(hs_dims.b_s - 1), s \in 0..(hs_dims.seq - 1),
                       h \in 0..(hs_dims.num_heads - 1), c \in 0..(hs_dims.d_k - 1) }

\* C9: the split puts element (b, s, h*d_k + c) at head h, position s, channel
\* c of a [b_s, num_heads, seq, d_k] tensor, and the merge puts it back at
\* (b, s, h*d_k + c) of a [b_s, seq, embed_dim] tensor.
C9_HeadSplitRoundTrip ==
    /\ hs_phase \in {"split", "context"} =>
        /\ hs_t.shape = <<hs_dims.b_s, hs_dims.num_heads, hs_dims.seq, hs_dims.d_k>>
        /\ \A i \in HSIndices :
              At(hs_t, <<i[1], i[3], i[2], i[4]>>)
                 = At(hs_x, <<i[1], i[2], i[3] * hs_dims.d_k + i[4]>>)
    /\ hs_phase = "merged" =>
        /\ hs_t.shape = hs_x.shape
        /\ \A i \in HSIndices :
              At(hs_t, <<i[1], i[2], i[3] * hs_dims.d_k + i[4]>>)
                 = At(hs_x, <<i[1], i[2], i[3] * hs_dims.d_k + i[4]>>)

\* A merged tensor with more than one head and more than one position.
C9_Witness ==
    /\ hs_phase = "merged"
    /\ hs_dims.num_heads > 1
    /\ hs_dims.seq > 1
    /\ hs_dims.d_k > 1
    /\ hs_dims.b_s > 1

(***************************************************************************)
(* Masks (utils.get_attn_pad_mask, utils.get_attn_subsequence_mask) and    *)
(* ScaleDotProductAttention.  A token sequence is one row of a batch: the  *)
(* masks, the scores and the softmax of a row of the batch depend on that  *)
(* row alone.  A mask or score matrix is indexed [query][key].             *)
(***************************************************************************)
PAD == 0

\* A mask reads a token only to compare it with PAD, so one token that is not
\* PAD stands for all of them.
TokenIds == {PAD, 1}

TokenSeqs(maxLen) == UNION { [1..n -> TokenIds] : n \in 1..maxLen }

\* 1 where the key position holds the padding token, for every query position.
get_attn_pad_mask(seq_q, seq_k) ==
    [i \in 1..Len(seq_q) |-> [j \in 1..Len(seq_k) |->
        IF seq_k[j] = PAD THEN 1 ELSE 0]]

\* 1 strictly above the diagonal: the key position is later than the query's.
get_attn_subsequence_mask(seq) ==
    [i \in 1..Len(seq) |-> [j \in 1..Len(seq) |-> IF j > i THEN 1 ELSE 0]]

AsBool(mask) ==
    [i \in 1..Len(mask) |-> [j \in 1..Len(mask[i]) |-> mask[i][j] > 0]]

\* TransformerEncoder.forward, line 163.
EncSelfAttnMask(inputs) == AsBool(get_attn_pad_mask(inputs, inputs))

\* A combination that keeps only the entries BOTH masks set, torch.gt(.., 1).
DecSelfAttnMaskBoth(dec_inputs) ==
    [i \in 1..Len(dec_inputs) |-> [j \in 1..Len(dec_inputs) |->
        (get_attn_pad_mask(dec_inputs, dec_inputs)[i][j]
           + get_attn_subsequence_mask(dec_inputs)[i][j]) > 1]]

\* TransformerDecoder.forward, lines 200-203: torch.gt(pad + subsequence, 0).
DecSelfAttnMask(dec_inputs) ==
    [i \in 1..Len(dec_inputs) |-> [j \in 1..Len(dec_inputs) |->
        (get_attn_pad_mask(dec_inputs, dec_inputs)[i][j]
           + get_attn_subsequence_mask(dec_inputs)[i][j]) > 0]]

\* The value masked_fill_ writes, -1e9.
NEG_FILL == -1000000000

\* exp(d) is 0 in single precision for d below about -104; a softmax weight
\* is exactly zero iff its exponent underflows.
ExpUnderflow == 104

\* Line 51 for one head with d_k = 1: Q and K hold one number per position and
\* the score of (query i, key j) is their product (divided by sqrt(1)).
ScaledScores(Q, K) ==
    [i \in 1..Len(Q) |-> [j \in 1..Len(K) |-> Q[i] * K[j]]]

\* A fill with the mask's polarity inverted: it overwrites the entries the
\* mask leaves alone.
MaskedFillInverted(scores, attn_mask, value) ==
    [i \in 1..Len(scores) |-> [j \in 1..Len(scores[i]) |->
        IF attn_mask[i][j] THEN scores[i][j] ELSE value]]

\* Line 53: scores.masked_fill_(attn_mask, -1e9), mask and scores of one shape.
MaskedFill(scores, attn_mask, value) ==
    [i \in 1..Len(scores) |-> [j \in 1..Len(scores[i]) |->
        IF attn_mask[i][j] THEN value ELSE scores[i][j]]]

RowMax(row) == CHOOSE m \in {row[j] : j \in 1..Len(row)} :
                  \A j \in 1..Len(row) : row[j] <= m

\* Line 54: softmax over the key axis, exp(s - max) / sum.  A weight is kept
\* as the exponent of its numerator (logit) and whether that underflows to 0;
\* the sum is positive, the entry of the row maximum having numerator 1.
Softmax(scores) ==
    [i \in 1..Len(scores) |-> [j \in 1..Len(scores[i]) |->
        [logit |-> scores[i][j] - RowMax(scores[i]),
         zero  |-> scores[i][j] - RowMax(scores[i]) < -ExpUnderflow]]]

ScoreVectors(n) == [1..n -> 0..ATScoreMax]

\* TransformerEncoder.forward up to the loop over the layers.
ATEncoderForward ==
    /\ at_phase = "none"
    /\ \E inputs \in TokenSeqs(ATMaxSeq) :
          /\ at_tokens' = inputs
          /\ at_mask' = EncSelfAttnMask(inputs)
    /\ at_kind' = "enc"
    /\ at_phase' = "masked"
    /\ UNCHANGED <<at_scores, at_attn>>
    /\ UNCHANGED <<peVars, hsVars, fwVars, ctVars>>

\* TransformerDecoder.forward up to the loop over the layers.
ATDecoderForward ==
    /\ at_phase = "none"
    /\ \E dec_inputs \in TokenSeqs(ATMaxSeq) :
          /\ at_tokens' = dec_inputs
          /\ at_mask' = DecSelfAttnMask(dec_inputs)
    /\ at_kind' = "dec"
    /\ at_phase' = "masked"
    /\ UNCHANGED <<at_scores, at_attn>>
    /\ UNCHANGED <<peVars, hsVars, fwVars, ctVars>>

\* The self-attention of a layer (lines 144 and 179): the mask is the one the
\* forward pass built before its loop, the same for every layer and head; the
\* projected queries and keys are whatever the weights make them.
ATSelfAttention ==
    /\ at_phase = "masked"
    /\ \E Q \in ScoreVectors(Len(at_tokens)), K \in ScoreVectors(Len(at_tokens)) :
          /\ at_scores' = MaskedFill(ScaledScores(Q, K), at_mask, NEG_FILL)
          /\ at_attn' = Softmax(MaskedFill(ScaledScores(Q, K), at_mask, NEG_FILL))
    /\ at_phase' = "attended"
    /\ UNCHANGED <<at_kind, at_tokens, at_mask>>
    /\ UNCHANGED <<peVars, hsVars, fwVars, ctVars>>

ATNext == ATEncoderForward \/ ATDecoderForward \/ ATSelfAttention

SpecAttn == Init /\ [][ATNext]_vars

ATPositions == 1..Len(at_tokens)

\* The key positions a query position may attend to: every position in the
\* encoder, the positions up to its own in the decoder.
ATVisible(i) ==
    IF at_kind = "dec" THEN {j \in ATPositions : j <= i} ELSE ATPositions

\* Query position i can see at least one token that is not padding.
ATRowHasLiveKey(i) == \E j \in ATVisible(i) : at_tokens[j] # PAD

\* C1 as stated: in every decoder self-attention row, whatever the tokens, the
\* weight on every later key position is zero.
C1_CausalEveryRow ==
    (at_phase = "attended" /\ at_kind = "dec") =>
        \A i \in ATPositions : \A j \in ATPositions :
            j > i => at_attn[i][j].zero

\* C1 amended: in every decoder self-attention row whose query position can
\* see at least one non-padding token at or before itself, the weight on every
\* later key position is zero.
C1_CausalLiveRows ==
    (at_phase = "attended" /\ at_kind = "dec") =>
        \A i \in ATPositions : ATRowHasLiveKey(i) =>
            \A j \in ATPositions : j > i => at_attn[i][j].zero

\* A decoder self-attention over three tokens, the first not padding, whose
\* first row has zero weight on both later positions.
C1_Witness ==
    /\ at_phase = "attended"
    /\ at_kind = "dec"
    /\ Len(at_tokens) = 3
    /\ at_tokens[1] # PAD
    /\ at_attn[1][2].zero
    /\ at_attn[1][3].zero
    /\ ~at_attn[2][1].zero

\* C2 as stated: in every encoder or decoder self-attention row, fully masked
\* rows included, the weight on every padding key position is zero.
C2_PaddingEveryRow ==
    at_phase = "attended" =>
        \A i \in ATPositions : \A j \in ATPositions :
            at_tokens[j] = PAD => at_attn[i][j].zero

\* C2 amended: in every encoder or decoder self-attention row that has at
\* least one key position left unmasked, the weight on every padding key
\* position is zero.
C2_PaddingLiveRows ==
    at_phase = "attended" =>
        \A i \in ATPositions : ATRowHasLiveKey(i) =>
            \A j \in ATPositions : at_tokens[j] = PAD => at_attn[i][j].zero

\* An encoder self-attention over a sequence that ends in padding, with zero
\* weight on the padding and none on the token before it.
C2_Witness ==
    /\ at_phase = "attended"
    /\ at_kind = "enc"
    /\ Len(at_tokens) = 3
    /\ at_tokens[1] # PAD
    /\ at_tokens[3] = PAD
    /\ at_attn[1][3].zero
    /\ ~at_attn[1][1].zero

(***************************************************************************)
(* Transformer.forward: the shapes of the tensors that flow through the    *)
(* encoder, the decoder layers and the projection, and the mask and score  *)
(* matrix of the cross-attention.  A shape is <<batch, seq, width>>; a     *)
(* step that the tensor engine rejects yields the shape <<>>.              *)
(***************************************************************************)
ShapeError == <<>>

\* MultiheadAttention.forward, lines 94-112, on shapes.  query, key and value
\* are [b, len, embed_dim] and attn_mask is [b, mask_q, mask_k]; key and value
\* are the same tensor at every call site of the module.
MHAScoresShape(query, key) == <<query[1], query[2], key[2]>>

MHAMaskFits(query, key, attn_mask) ==
    /\ BroadcastOk(attn_mask[1], MHAScoresShape(query, key)[1])
    /\ BroadcastOk(attn_mask[2], MHAScoresShape(query, key)[2])
    /\ BroadcastOk(attn_mask[3], MHAScoresShape(query, key)[3])

\* The output has the query's shape: context is [b, heads, len_q, d_k], merged
\* to [b, len_q, embed_dim], and the residual added is the query.
MultiheadAttentionForward(query, key, attn_mask) ==
    IF query = ShapeError \/ key = ShapeError THEN ShapeError
    ELSE IF query[1] # key[1] \/ query[3] # key[3] THEN ShapeError
    ELSE IF ~MHAMaskFits(query, key, attn_mask) THEN ShapeError
    ELSE query

\* FeedForWard.forward keeps the shape.
FeedForWardForward(inputs) == inputs

\* Embedding followed by PositionalEncoding.forward (lines 160-161, 196-197);
\* the encoder and the decoder build their table with the default max_len.
EmbedShape(batch, seq_len, d_model) ==
    IF PEForwardOk(DefaultMaxLen, batch, seq_len)
    THEN <<batch, seq_len, d_model>>
    ELSE ShapeError

MaskShape(batch, mask) == <<batch, Len(mask), Len(mask[1])>>

\* TransformerEncoderLayer.forward.
EncoderLayerForward(inputs, enc_attn_mask) ==
    FeedForWardForward(MultiheadAttentionForward(inputs, inputs, enc_attn_mask))

\* TransformerEncoder.forward, lines 159-167.
RECURSIVE EncoderLayers(_, _, _)
EncoderLayers(outputs, enc_attn_mask, n) ==
    IF n = 0 THEN outputs
    ELSE EncoderLayers(EncoderLayerForward(outputs, enc_attn_mask), enc_attn_mask, n - 1)

TransformerEncoderForward(batch, inputs, args) ==
    EncoderLayers(EmbedShape(batch, Len(inputs), args.d_model),
                  MaskShape(batch, EncSelfAttnMask(inputs)),
                  args.n_layers)

\* TransformerDecoder.forward, line 205: the pad mask with the decoder as the
\* query sequence and the encoder as the key sequence.
DecEncAttnMask(dec_inputs, enc_inputs) ==
    AsBool(get_attn_pad_mask(dec_inputs, enc_inputs))

\* TransformerDecoderLayer.forward, line 179.
DecLayerSelfAttn(dec_inputs, dec_self_attn_mask) ==
    MultiheadAttentionForward(dec_inputs, dec_inputs, dec_self_attn_mask)

\* TransformerDecoderLayer.forward, line 180: the layer's enc_inputs (the
\* encoder's output) is passed as the query, the self-attention output as key
\* and value.
DecLayerCrossAttn(output, enc_inputs, dec_enc_attn_mask) ==
    MultiheadAttentionForward(enc_inputs, output, dec_enc_attn_mask)

\* What the cross-attention of a decoder layer fills: the score matrix's
\* [query, key] lengths, the mask's [query, key] lengths, and the suppressed
\* entries when the fill is accepted.
CrossAttnRecord(output, enc_inputs, dec_enc_attn_mask, mask) ==
    [scores_q |-> MHAScoresShape(enc_inputs, output)[2],
     scores_k |-> MHAScoresShape(enc_inputs, output)[3],
     mask_q   |-> dec_enc_attn_mask[2],
     mask_k   |-> dec_enc_attn_mask[3],
     filled   |-> MHAMaskFits(enc_inputs, output, dec_enc_attn_mask),
     suppressed |->
        IF MHAMaskFits(enc_inputs, output, dec_enc_attn_mask)
        THEN [i \in 1..MHAScoresShape(enc_inputs, output)[2] |->
                [j \in 1..MHAScoresShape(enc_inputs, output)[3] |->
                    mask[BroadcastIdx(dec_enc_attn_mask[2], i - 1) + 1]
                        [BroadcastIdx(dec_enc_attn_mask[3], j - 1) + 1]]]
        ELSE <<>>]

\* Transformer.forward, lines 224-226: the projection to the vocabulary and
\* the view that flattens batch and sequence.
ProjectionShape(dec_outputs, vocab_dec_size) ==
    IF dec_outputs = ShapeError THEN ShapeError
    ELSE <<dec_outputs[1] * dec_outputs[2], vocab_dec_size>>

\* Transformer.__init__ with a configuration the constructors accept.
FWConstruct ==
    /\ fw_pc = "none"
    /\ \E n \in 0..FWMaxLayers, h \in 1..FWMaxHeads :
          fw_args' = [n_layers |-> n, nums_head |-> h, d_model |-> 2 * h,
                      vocab_dec_size |-> Cardinality(TokenIds)]
    /\ fw_pc' = "built"
    /\ UNCHANGED <<fw_enc, fw_dec, fw_layer, fw_enc_out, fw_dec_out, fw_cross, fw_result>>
    /\ UNCHANGED <<peVars, hsVars, atVars, ctVars>>

\* Transformer.forward, line 222: the encoder runs on a batch of sequences of
\* one length; fw_enc and fw_dec are one row of the batch each.
FWEncode ==
    /\ fw_pc = "built"
    /\ \E batch \in 1..FWMaxBatch, enc_inputs \in TokenSeqs(FWMaxSeq),
          dec_inputs \in TokenSeqs(FWMaxSeq) :
          /\ fw_enc' = enc_inputs
          /\ fw_dec' = dec_inputs
          /\ fw_enc_out' = TransformerEncoderForward(batch, enc_inputs, fw_args)
          /\ fw_result' = [status |-> "running", batch |-> batch]
    /\ fw_pc' = "encoded"
    /\ UNCHANGED <<fw_args, fw_layer, fw_dec_out, fw_cross>>
    /\ UNCHANGED <<peVars, hsVars, atVars, ctVars>>

\* TransformerDecoder.forward, lines 196-205: embedding, positional encoding
\* and the two masks.
FWDecodeStart ==
    /\ fw_pc = "encoded"
    /\ fw_enc_out # ShapeError
    /\ fw_dec_out' = EmbedShape(fw_result.batch, Len(fw_dec), fw_args.d_model)
    /\ fw_layer' = 0
    /\ fw_pc' = "decoding"
    /\ UNCHANGED <<fw_args, fw_enc, fw_dec, fw_enc_out, fw_cross, fw_result>>
    /\ UNCHANGED <<peVars, hsVars, atVars, ctVars>>

\* One pass of the loop of lines 207-208: TransformerDecoderLayer.forward.
FWDecoderLayer ==
    /\ fw_pc = "decoding"
    /\ fw_layer < fw_args.n_layers
    /\ fw_dec_out # ShapeError
    /\ LET self_mask  == MaskShape(fw_result.batch, DecSelfAttnMask(fw_dec))
           cross_mask == MaskShape(fw_result.batch, DecEncAttnMask(fw_dec, fw_enc))
           output     == DecLayerSelfAttn(fw_dec_out, self_mask)
       IN  /\ fw_cross' =
                 IF output = ShapeError THEN [filled |-> FALSE]
                 ELSE CrossAttnRecord(output, fw_enc_out, cross_mask,
                                      DecEncAttnMask(fw_dec, fw_enc))
           /\ fw_dec_out' =
                 FeedForWardForward(DecLayerCrossAttn(output, fw_enc_out, cross_mask))
    /\ fw_layer' = fw_layer + 1
    /\ UNCHANGED <<fw_pc, fw_args, fw_enc, fw_dec, fw_enc_out, fw_result>>
    /\ UNCHANGED <<peVars, hsVars, atVars, ctVars>>

\* Lines 224-226, after the last decoder layer.
FWProject ==
    /\ fw_pc = "decoding"
    /\ fw_layer = fw_args.n_layers
    /\ fw_dec_out # ShapeError
    /\ fw_result' = [status |-> "ok", batch |-> fw_result.batch,
                     shape |-> ProjectionShape(fw_dec_out, fw_args.vocab_dec_size)]
    /\ fw_pc' = "done"
    /\ UNCHANGED <<fw_args, fw_enc, fw_dec, fw_layer, fw_enc_out, fw_dec_out, fw_cross>>
    /\ UNCHANGED <<peVars, hsVars, atVars, ctVars>>

\* A step the tensor engine rejected ends the forward pass with its error.
FWRaise ==
    /\ \/ fw_pc = "encoded" /\ fw_enc_out = ShapeError
       \/ fw_pc = "decoding" /\ fw_dec_out = ShapeError
    /\ fw_result' = [status |-> "shape_error", batch |-> fw_result.batch]
    /\ fw_pc' = "done"
    /\ UNCHANGED <<fw_args, fw_enc, fw_dec, fw_layer, fw_enc_out, fw_dec_out, fw_cross>>
    /\ UNCHANGED <<peVars, hsVars, atVars, ctVars>>

FWNext ==
    FWConstruct \/ FWEncode \/ FWDecodeStart \/ FWDecoderLayer \/ FWProject \/ FWRaise

SpecFwd == Init /\ [][FWNext]_vars

\* C3: a forward call on a model of at least one layer, with encoder and
\* decoder inputs of any lengths, completes without a shape error and returns
\* logits of shape [batch * len_dec, vocab_dec_size].
C3_LogitsPerTargetPosition ==
    (fw_pc = "done" /\ fw_args.n_layers >= 1) =>
        /\ fw_result.status = "ok"
        /\ fw_result.shape = <<fw_result.batch * Len(fw_dec), fw_args.vocab_dec_size>>

\* C10: in the cross-attention of a decoder layer, for inputs of any lengths,
\* the mask's [query, key] axes have the lengths of the score matrix's
\* [query, key] axes, the key axis has one position per encoder token, and the
\* entry (query i, key j) is suppressed iff the encoder token at position j is
\* the padding id.
C10_CrossMaskOverEncoderKeys ==
    fw_layer >= 1 =>
        /\ fw_cross.filled
        /\ fw_cross.mask_q = fw_cross.scores_q
        /\ fw_cross.mask_k = fw_cross.scores_k
        /\ fw_cross.scores_k = Len(fw_enc)
        /\ \A i \in 1..fw_cross.scores_q : \A j \in 1..fw_cross.scores_k :
              fw_cross.suppressed[i][j] = (fw_enc[j] = PAD)

(***************************************************************************)
(* Construction and ownership of parameter tensors.  A parameter tensor is *)
(* named by the path of attributes that leads to it from the Transformer.  *)
(* model.parameters() walks the registered sub-modules: a Module assigned  *)
(* to an attribute and the items of a ModuleList are registered, the items *)
(* of a Python list are not.                                               *)
(***************************************************************************)
\* MultiheadAttention.__init__, lines 68-70: head_dim = embed_dim // num_heads
\* and the assertion on it.
MHACtorOk(embed_dim, num_heads) ==
    (embed_dim \div num_heads) * num_heads = embed_dim

\* MultiheadAttention.__init__, lines 72-76.
MultiheadAttentionParams(path) ==
    { path \o <<"q_w", "weight">>, path \o <<"k_w", "weight">>,
      path \o <<"v_w", "weight">>, path \o <<"fc", "weight">> }

\* FeedForWard.__init__, lines 120-125: the two Linear layers of the Sequential.
FeedForWardParams(path) ==
    { path \o <<"fc", "0", "weight">>, path \o <<"fc", "0", "bias">>,
      path \o <<"fc", "3", "weight">>, path \o <<"fc", "3", "bias">> }

\* TransformerEncoderLayer.__init__.
EncoderLayerParams(path) ==
    MultiheadAttentionParams(path \o <<"self_attn">>)
        \cup FeedForWardParams(path \o <<"feedforward">>)

\* TransformerDecoderLayer.__init__.
DecoderLayerParams(path) ==
    MultiheadAttentionParams(path \o <<"dec_self_attn">>)
        \cup MultiheadAttentionParams(path \o <<"dec_enc_attn">>)
        \cup FeedForWardParams(path \o <<"feedforward">>)

LayerPaths(owner, n_layers) ==
    { <<owner, "layers", ToString(l)>> : l \in 0..(n_layers - 1) }

\* The container each stack of layers is kept in.
EncoderLayersContainer == "ModuleList"

DecoderLayersContainer == "list"

Registers(container) == container = "ModuleList"

\* The constructors raise iff a MultiheadAttention is built (one layer at
\* least) with a width its heads do not divide.
TransformerCtorOk(args) ==
    \A l \in 1..args.n_layers : MHACtorOk(args.d_model, args.nums_head)

EncoderLayersParams(args) ==
    UNION { EncoderLayerParams(p) : p \in LayerPaths("encode", args.n_layers) }

DecoderLayersParams(args) ==
    UNION { DecoderLayerParams(p) : p \in LayerPaths("decode", args.n_layers) }

\* Every parameter tensor the constructors create.
TransformerCreated(args) ==
    { <<"encode", "src_emb", "weight">>, <<"decode", "tgt_emb", "weight">>,
      <<"projection", "weight">>, <<"projection", "bias">> }
        \cup EncoderLayersParams(args) \cup DecoderLayersParams(args)

\* The parameter tensors model.parameters() reaches.
TransformerRegistered(args) ==
    { <<"encode", "src_emb", "weight">>, <<"decode", "tgt_emb", "weight">>,
      <<"projection", "weight">>, <<"projection", "bias">> }
        \cup (IF Registers(EncoderLayersContainer) THEN EncoderLayersParams(args) ELSE {})
        \cup (IF Registers(DecoderLayersContainer) THEN DecoderLayersParams(args) ELSE {})

\* nn.LayerNorm(...) evaluated inside a forward call (lines 110 and 131): a new
\* module with a new weight and bias, each time the line runs.
FreshLayerNorm(path, call) ==
    { path \o <<"LayerNorm", ToString(call), "weight">>,
      path \o <<"LayerNorm", ToString(call), "bias">> }

\* The normalization parameters of the call-th forward call, by sub-layer.
ForwardNorms(args, call) ==
    UNION { FreshLayerNorm(p \o <<"self_attn">>, call)
              \cup FreshLayerNorm(p \o <<"feedforward">>, call) :
            p \in LayerPaths("encode", args.n_layers) }
      \cup
    UNION { FreshLayerNorm(p \o <<"dec_self_attn">>, call)
              \cup FreshLayerNorm(p \o <<"dec_enc_attn">>, call)
              \cup FreshLayerNorm(p \o <<"feedforward">>, call) :
            p \in LayerPaths("decode", args.n_layers) }

\* Transformer.__init__(args).
CTConstruct ==
    /\ ct_status = "none"
    /\ \E d \in 1..CTMaxDModel, h \in 1..CTMaxHeads, n \in 0..CTMaxLayers :
          LET args == [d_model |-> d, nums_head |-> h, n_layers |-> n]
          IN  /\ ct_args' = args
              /\ IF TransformerCtorOk(args)
                 THEN /\ ct_status' = "built"
                      /\ ct_created' = TransformerCreated(args)
                      /\ ct_ctor_params' = TransformerCreated(args)
                      /\ ct_registered' = TransformerRegistered(args)
                 ELSE /\ ct_status' = "assertion_error"
                      /\ UNCHANGED <<ct_created, ct_ctor_params, ct_registered>>
    /\ UNCHANGED <<ct_used, ct_calls, ct_norms>>
    /\ UNCHANGED <<peVars, hsVars, atVars, fwVars>>

\* Transformer.forward on inputs it accepts (encoder and decoder sequences of
\* one length): every tensor made at construction is read, and every
\* MultiheadAttention and FeedForWard call makes its LayerNorm.
CTForward ==
    /\ ct_status = "built"
    /\ ct_calls < CTMaxCalls
    /\ ct_calls' = ct_calls + 1
    /\ ct_created' = ct_created \cup ForwardNorms(ct_args, ct_calls + 1)
    /\ ct_used' = ct_ctor_params \cup ForwardNorms(ct_args, ct_calls + 1)
    /\ ct_norms' = Append(ct_norms, ForwardNorms(ct_args, ct_calls + 1))
    /\ UNCHANGED <<ct_status, ct_args, ct_ctor_params, ct_registered>>
    /\ UNCHANGED <<peVars, hsVars, atVars, fwVars>>

CTNext == CTConstruct \/ CTForward

SpecCtor == Init /\ [][CTNext]_vars

\* C6: no model whose d_model is not divisible by nums_head is ever
\* constructed, whatever n_layers is (0 included), so none reaches forward.
C6_IndivisibleNeverBuilt ==
    ct_status = "built" => ct_args.d_model % ct_args.nums_head = 0

\* C7: the set of parameter tensors is the one made at construction, no forward
\* call adds to it, and the normalization parameters the k-th forward call
\* uses are those the first call used.
C7_ParametersFixedAtConstruction ==
    ct_status = "built" =>
        /\ ct_created = ct_ctor_params
        /\ \A k \in 1..Len(ct_norms) : ct_norms[k] = ct_norms[1]

\* C8: after constructing a model of at least one layer, every tensor a forward
\* call uses is reached by the traversal of the registered sub-modules.
C8_UsedParametersRegistered ==
    (ct_status = "built" /\ ct_args.n_layers >= 1 /\ ct_calls >= 1) =>
        ct_used \subseteq ct_registered

====
